---- MODULE Spec2Model ----
(***************************************************************************)
(* Model of the Unreal session collector of tk-unreal                      *)
(* (hooks/tk-multi-publish2/basic/collector.py).                           *)
(*                                                                         *)
(* The Unreal project holds Level Sequences; a Level Sequence has shot     *)
(* tracks, a track has sections, a section names the sub-sequence it       *)
(* plays.  retrieve_sequence_edits scans them into a defaultdict(list)     *)
(* from a Level Sequence to the SequenceEdits it appears in, and           *)
(* get_all_paths_from_sequence walks that dictionary recursively from a    *)
(* selected Level Sequence up to the top Level Sequences.  The recursion   *)
(* is modelled with an explicit call stack, one frame per active call.     *)
(***************************************************************************)
EXTENDS Integers, Sequences, FiniteSets, TLC

\* ------------------------------------------------------------------ bounds

\* Number of Level Sequence assets of a project, and the largest number of
\* shot-track sections of a project.  The projects without cycle of
\* WideProjects have one more of each.
NumNodes == 3

MaxSections == 3

\* The Level Sequences of the model.  The asset registry lists them in the
\* order 1, 2, ...
Nodes == 1 .. NumNodes + 1


\* What section.get_sequence() gives for a sub-section with no sequence
\* attached.
None == 0

\* What stands for the sequence of a section that is no sub-section: it has no
\* get_sequence.
NoGetSequence == -1

\* The largest number of selected assets.
MaxSelected == 2

\* The largest number of shot tracks of a Level Sequence.
MaxTracks == 2

\* The largest number of actions given to execute_multiple_actions.
MaxActions == 3

\* The largest number of dialogs open when the engine is destroyed.
MaxDialogs == 4

\* The largest number of callbacks run or waiting for their timer.
MaxCallbackRuns == 3

\* The largest number of movie items of a run of the publisher, which is also
\* the number of assets they are taken from.
MaxItems == 2

\* The largest length of the edits_path of a movie item.
MaxEditsPath == 2

\* The largest number of commands the apps registered in engine.commands.
MaxCommands == 2

\* The largest number of entries of the menu_favourites setting.
MaxFavourites == 2

\* The largest number of lines of the file given to add_include_to_includes.
MaxLines == 3

\* ------------------------------------------------------------------- state

VARIABLES
    sections,        \* the project: every shot-track section, in scan order
    selected,        \* unreal_sg.selected_assets still to be treated
    built,           \* collect_selected_assets: sequence_edits is not None
    sequence_edits,  \* the defaultdict(list): Level Sequence -> SequenceEdits
    asset,           \* the Level Sequence collect_level_sequence is treating
    stack,           \* active calls of get_all_paths_from_sequence, last = innermost
    returned,        \* <<>>, or <<r>>: r the last call that returned, with its value
    warnings,        \* messages given to logger.warning
    items,           \* edits_path of the publish items created, in creation order
    exc,             \* "None", or the exception that left collect_selected_assets
    pc,              \* "collect", "paths", "done", "raised"
    results,         \* the outermost calls of get_all_paths_from_sequence that
                     \* returned: their start node and the paths they returned
    retrieve_calls,  \* number of calls of retrieve_sequence_edits
    actions,         \* the list given to the loader's execute_multiple_actions
    position,        \* the action the loop of execute_multiple_actions is at
    executed,        \* positions of the actions execute_action was called for
    imported,        \* positions of the actions imported into the Content Browser
    loader_exc,      \* "None", or the exception that left execute_multiple_actions
    loader_pc        \* "idle", "loop", "done", "raised"

\* The state of the collector other than the two records of its history.
collector_vars == <<sections, selected, built, sequence_edits, asset, stack, returned,
                    warnings, items, exc, pc>>

\* The state of the loader hook.
loader_vars == <<actions, position, executed, imported, loader_exc, loader_pc>>

VARIABLES
    unreal_has,       \* the attributes of the unreal module that validate tests for
    map_saved,        \* the current map is saved: its path is not under /Temp/
    template,         \* "ok", or what is wrong with the publish template or context
    metadata,         \* asset -> the version_number metadata tag of the asset
    movie_items,      \* the movie items of the publisher, with their properties
    validated,        \* the item of the last call of validate, 0 before any
    validate_result,  \* what that call returned or raised
    published,        \* the items publish has been called for
    publishing,       \* the item of the last call of publish, 0 before any
    publish_pc,       \* "idle", or the step the call of publish is at
    steps,            \* the steps that call has gone through, "render_failed"
                      \* for a render that produced no movie file
    metadata_before,  \* the metadata tag of its asset when it was called
    publish_exc       \* "None", or the exception that left it

\* The state of the movie publish plugin.
publish_vars == <<unreal_has, map_saved, template, metadata, movie_items, validated,
                  validate_result, published, publishing, publish_pc, steps,
                  metadata_before, publish_exc>>

VARIABLES
    created_qt_dialogs,    \* the engine's list of the dialogs that are open
    dialogs_still_opened,  \* destroy_engine: its copy of that list
    dialog_position,       \* destroy_engine: where its loop is in the list
    close_calls,           \* the dialogs close() was called on, in call order
    engine_pc              \* "idle", "start", "loop", "done"

\* The state of the engine that destroy_engine works on.
engine_vars == <<created_qt_dialogs, dialogs_still_opened, dialog_position, close_calls, engine_pc>>

VARIABLES
    callback_slot,   \* self._callback: <<>> for None, or <<callback>>
    timers,          \* number of single-shot timers of _execute_deferred not yet fired
    ran,             \* the callbacks that were called, in call order
    logged,          \* number of exceptions given to logger.exception
    wrapper_exc      \* "None", or the exception that left the last call of the wrapper

\* The state of the ShotgunEngineWrapper of unreal_sg_engine that its callbacks use.
wrapper_vars == <<callback_slot, timers, ran, logged, wrapper_exc>>

VARIABLES
    engine_commands,      \* engine.commands as items() enumerates it
    menu_favourites,      \* the "menu_favourites" setting of the engine
    filesystem_locations, \* whether the context has file system locations
    cmd_items,            \* the AppCommand list of create_menu
    menu_items,           \* the list create_menu fills and returns
    favourites_done,      \* how many entries of the setting were treated
    menu_pc               \* where create_menu stands
\* The state of ShotgunEngineWrapper.create_menu (unreal_sg_engine.py).
menu_vars == <<engine_commands, menu_favourites, filesystem_locations, cmd_items, menu_items, favourites_done, menu_pc>>

VARIABLES
    lines,          \* the lines of the file, which the function changes
    lines_given,    \* the lines as they were given to the function
    lineno,         \* the variable lineno of the function
    lineno2,        \* the variable lineno2: <<>> while it is unbound
    changed,        \* the variable changed
    include_exc,    \* the exception the call raised, or "None"
    include_pc      \* where add_include_to_includes stands
\* The state of add_include_to_includes (add_unreal_integration.py).
include_vars == <<lines, lines_given, lineno, lineno2, changed, include_exc, include_pc>>

vars == <<collector_vars, results, retrieve_calls, loader_vars, publish_vars, engine_vars, wrapper_vars, menu_vars, include_vars>>

\* --------------------------------------------------------------- sequences

Range(s) == {s[i] : i \in 1 .. Len(s)}

Last(s) == s[Len(s)]

\* Line 262 left out: the path as get_all_paths_from_sequence returned it.
NotReversed(s) == s

\* list.reverse()
Reverse(s) == [i \in 1 .. Len(s) |-> s[Len(s) + 1 - i]]

\* x in list
Contains(s, x) == \E i \in 1 .. Len(s) : s[i] = x

\* ------------------------------------------------------------- the project

\* The scan of retrieve_sequence_edits goes through the Level Sequences in
\* registry order, so the sections of the project come sorted by the Level
\* Sequence and the track holding them.
ScanOrdered(secs) ==
    \A i \in 1 .. Len(secs) - 1 :
        \/ secs[i].sequence < secs[i + 1].sequence
        \/ /\ secs[i].sequence = secs[i + 1].sequence
           /\ secs[i].track <= secs[i + 1].track

Section(p, t, c) == [sequence |-> p, track |-> t, child |-> c]

\* The projects of at most k sections taken among choices, in scan order.
RECURSIVE Projects(_, _)
Projects(choices, k) ==
    IF k = 0 THEN {<<>>}
    ELSE LET shorter == Projects(choices, k - 1)
             longest == {s \in shorter : Len(s) = k - 1}
         IN  shorter \cup
             {Append(y[1], y[2]) :
                 y \in {z \in longest \X choices : ScanOrdered(Append(z[1], z[2]))}}

\* Projects of NumNodes Level Sequences: any section on track 1 of one of
\* them, playing any of them or nothing, or no sub-section at all.
SmallProjects ==
    Projects({Section(p, 1, c) : p \in 1 .. NumNodes,
                                 c \in {NoGetSequence, None} \cup 1 .. NumNodes},
             MaxSections)

\* Projects with one more Level Sequence and one more section, in which a
\* Level Sequence plays only Level Sequences registered before it.
WideProjects ==
    Projects(UNION {{Section(p, 1, c) : c \in 1 .. p - 1} : p \in Nodes}, MaxSections + 1)

\* An asset of unreal_sg.selected_assets: its class name and the object that
\* unreal.load_asset gives for it.
Asset(asset_class, object) == [asset_class |-> asset_class, object |-> object]

LevelSequenceAsset(n) == Asset("LevelSequence", n)

\* Line 174: asset.asset_class_path.asset_name == "LevelSequence".
IsLevelSequence(a) == a.asset_class = "LevelSequence"

\* create_asset_item, lines 151-162, and line 277: the type of the item, the
\* asset it stands for and its edits_path property, <<>> when it has none.
Item(asset_type, object, edits_path) ==
    [asset_type |-> asset_type, asset |-> object, edits_path |-> edits_path]

\* ---------------------------------------------------- retrieve_sequence_edits

SequenceEdit(sequence, track, section) ==
    [sequence |-> sequence, track |-> track, section |-> section]

\* defaultdict(list).__getitem__: the list of a key, an empty list for a key
\* never inserted.
Lookup(index, key) == IF key \in DOMAIN index THEN index[key] ELSE <<>>

\* Line 220 written as sequence_edits.pop(level_sequence, []): the lookup takes
\* the key out of the dictionary.
TouchPop(index, key) == [k \in DOMAIN index \ {key} |-> index[k]]

\* defaultdict(list).__getitem__ inserts the key it does not find.
Touch(index, key) ==
    IF key \in DOMAIN index THEN index
    ELSE [k \in DOMAIN index \cup {key} |-> IF k = key THEN <<>> ELSE index[k]]

\* Line 304 written as sequence_edits[section_seq].insert(0, edit).
AppendEditInFront(index, key, edit) ==
    [k \in DOMAIN index \cup {key} |->
        IF k = key THEN <<edit>> \o Lookup(index, key) ELSE index[k]]

\* sequence_edits[section_seq].append(edit)
AppendEdit(index, key, edit) ==
    [k \in DOMAIN index \cup {key} |->
        IF k = key THEN Append(Lookup(index, key), edit) ELSE index[k]]

\* The three nested loops of retrieve_sequence_edits over the first n sections
\* of the scan.  A section without get_sequence raises AttributeError, which
\* the except clause swallows; a sub-section with no sequence attached gives
\* None, and the edit is appended to the list of the key None.
RECURSIVE ScanSections(_, _)
ScanSections(secs, n) ==
    IF n = 0 THEN <<>>
    ELSE LET index == ScanSections(secs, n - 1)
             s == secs[n]
         IN  IF s.child = NoGetSequence THEN index
             ELSE AppendEdit(index, s.child, SequenceEdit(s.sequence, s.track, n))

retrieve_sequence_edits(secs) == ScanSections(secs, Len(secs))

\* ------------------------------------------------ get_all_paths_from_sequence

\* Lines 216-218: visited defaults to a new list, and the current Level
\* Sequence is pushed on it.
PushVisited(visited, level_sequence) == Append(visited, level_sequence)

\* Line 220 written as "if level_sequence not in sequence_edits".
IsRootWhenAbsent(index, level_sequence) == level_sequence \notin DOMAIN index

\* Line 220 written as a test of a plain dict: an entry that is there and empty.
IsRootWhenPresent(index, level_sequence) ==
    level_sequence \in DOMAIN index /\ index[level_sequence] = <<>>

\* Line 220: "if not sequence_edits[level_sequence]".
IsRoot(index, level_sequence) == Lookup(index, level_sequence) = <<>>

\* Line 223: the value returned for a Level Sequence without parent.
BaseCase(level_sequence) == <<<<level_sequence>>>>

\* Line 228 without the test of visited.
InVisitedNever(edit, visited) == FALSE

\* Line 228: "if edit.sequence in visited".
InVisited(edit, visited) == Contains(visited, edit.sequence)

\* Line 231: "->".join(visited).  str.join raises TypeError on an item that is
\* not a str; visited holds the unreal.LevelSequence objects themselves (line
\* 218), so the join raises as soon as visited is not empty.
JoinRaises(visited) == Len(visited) > 0

\* Line 240 written as "visited": the recursive call appends to the list of
\* its caller.
VisitedShared(own, passed) == passed

\* Line 240, copy.copy(visited): what the visited list of the caller holds
\* once the recursive call, which was passed a copy and has appended to it, is
\* back.
VisitedAfterCall(own, passed) == own

\* Line 243 written as edit_path + [level_sequence].
ExtendPathAtEnd(level_sequence, visited, edit_path) == edit_path \o <<level_sequence>>

\* Line 243 written as visited + edit_path.
ExtendPathWithVisited(level_sequence, visited, edit_path) == visited \o edit_path

\* Line 243: [level_sequence] + edit_path
ExtendPath(level_sequence, visited, edit_path) == <<level_sequence>> \o edit_path

\* Line 243 written as all_paths.insert(0, ...).
AppendPathInFront(all_paths, path) == <<path>> \o all_paths

\* Line 243: all_paths.append(...)
AppendPath(all_paths, path) == Append(all_paths, path)

\* Lines 237-243: the inner loop over the paths the recursive call returned.
RECURSIVE CollectPaths(_, _, _, _)
CollectPaths(all_paths, level_sequence, visited, edit_paths) ==
    IF edit_paths = <<>> THEN all_paths
    ELSE CollectPaths(
             AppendPath(all_paths, ExtendPath(level_sequence, visited, Head(edit_paths))),
             level_sequence, visited, Tail(edit_paths))

\* A call of get_all_paths_from_sequence that has run lines 216-225: its
\* visited list, whether line 220 took the base case, the list the for loop of
\* line 227 iterates and the position of the loop in it.  known records
\* whether the dictionary had the key before line 220 looked it up.
Frame(index, level_sequence, visited) ==
    [level_sequence |-> level_sequence,
     visited        |-> PushVisited(visited, level_sequence),
     known          |-> level_sequence \in DOMAIN index,
     root           |-> IsRoot(index, level_sequence),
     edits          |-> Lookup(index, level_sequence),
     idx            |-> 1,
     all_paths      |-> <<>>]

Top == stack[Len(stack)]

Pop(s) == SubSeq(s, 1, Len(s) - 1)

\* Line 227 written as a loop that stops before the last edit.
AtReturnBeforeLast(f) == f.root \/ f.idx >= Len(f.edits)

\* The call is at a return statement: line 223, or line 244 once the loop is
\* over.
AtReturn(f) == f.root \/ f.idx > Len(f.edits)

ReturnValue(f) == IF f.root THEN BaseCase(f.level_sequence) ELSE f.all_paths

\* -------------------------------------------------------------------- steps

\* The collector is not running.
NotCollecting ==
    /\ sections = <<>>
    /\ selected = <<>>
    /\ built = FALSE
    /\ sequence_edits = <<>>
    /\ asset = None
    /\ stack = <<>>
    /\ returned = <<>>
    /\ warnings = <<>>
    /\ items = <<>>
    /\ exc = "None"
    /\ pc = "done"
    /\ results = <<>>
    /\ retrieve_calls = 0

\* The movie publish plugin is not running.
NotPublishing ==
    /\ unreal_has = {}
    /\ map_saved = TRUE
    /\ template = "ok"
    /\ metadata = <<>>
    /\ movie_items = <<>>
    /\ validated = 0
    /\ validate_result = "None"
    /\ published = {}
    /\ publishing = 0
    /\ publish_pc = "idle"
    /\ steps = <<>>
    /\ metadata_before = <<>>
    /\ publish_exc = "None"

\* The loader hook is not running.
NotLoading ==
    /\ actions = <<>>
    /\ position = 0
    /\ executed = <<>>
    /\ imported = <<>>
    /\ loader_exc = "None"
    /\ loader_pc = "idle"

\* destroy_engine is not running.
NotDestroying ==
    /\ created_qt_dialogs = <<>>
    /\ dialogs_still_opened = <<>>
    /\ dialog_position = 0
    /\ close_calls = <<>>
    /\ engine_pc = "idle"

\* No callback of the ShotgunEngineWrapper is stored, pending or has run.
NoCallback ==
    /\ callback_slot = <<>>
    /\ timers = 0
    /\ ran = <<>>
    /\ logged = 0
    /\ wrapper_exc = "None"

\* No menu is being created.
NotInMenu ==
    /\ engine_commands = <<>>
    /\ menu_favourites = <<>>
    /\ filesystem_locations = FALSE
    /\ cmd_items = <<>>
    /\ menu_items = <<>>
    /\ favourites_done = 0
    /\ menu_pc = "idle"
\* add_include_to_includes is not running.
NotAddingInclude ==
    /\ lines = <<>>
    /\ lines_given = <<>>
    /\ lineno = 0
    /\ lineno2 = <<>>
    /\ changed = FALSE
    /\ include_exc = "None"
    /\ include_pc = "idle"
\* What each component leaves alone, and what it takes for granted: the
\* other components do not run.
outside_collector == <<loader_vars, publish_vars, engine_vars, wrapper_vars, menu_vars, include_vars>>

outside_loader == <<<<collector_vars, results, retrieve_calls>>, publish_vars, engine_vars, wrapper_vars, menu_vars, include_vars>>

outside_publisher == <<<<collector_vars, results, retrieve_calls>>, loader_vars, engine_vars, wrapper_vars, menu_vars, include_vars>>

outside_engine == <<<<collector_vars, results, retrieve_calls>>, loader_vars, publish_vars, wrapper_vars, menu_vars, include_vars>>

outside_wrapper == <<<<collector_vars, results, retrieve_calls>>, loader_vars, publish_vars, engine_vars, menu_vars, include_vars>>

outside_menu == <<<<collector_vars, results, retrieve_calls>>, loader_vars, publish_vars, engine_vars, wrapper_vars, include_vars>>

outside_includes == <<<<collector_vars, results, retrieve_calls>>, loader_vars, publish_vars, engine_vars, wrapper_vars, menu_vars>>

Only_collector ==
    /\ NotLoading
    /\ NotPublishing
    /\ NotDestroying
    /\ NoCallback
    /\ NotInMenu
    /\ NotAddingInclude

Only_loader ==
    /\ NotCollecting
    /\ NotPublishing
    /\ NotDestroying
    /\ NoCallback
    /\ NotInMenu
    /\ NotAddingInclude

Only_publisher ==
    /\ NotCollecting
    /\ NotLoading
    /\ NotDestroying
    /\ NoCallback
    /\ NotInMenu
    /\ NotAddingInclude

Only_engine ==
    /\ NotCollecting
    /\ NotLoading
    /\ NotPublishing
    /\ NoCallback
    /\ NotInMenu
    /\ NotAddingInclude

Only_wrapper ==
    /\ NotCollecting
    /\ NotLoading
    /\ NotPublishing
    /\ NotDestroying
    /\ NotInMenu
    /\ NotAddingInclude

Only_menu ==
    /\ NotCollecting
    /\ NotLoading
    /\ NotPublishing
    /\ NotDestroying
    /\ NoCallback
    /\ NotAddingInclude

Only_includes ==
    /\ NotCollecting
    /\ NotLoading
    /\ NotPublishing
    /\ NotDestroying
    /\ NoCallback
    /\ NotInMenu

\* The state collect_selected_assets starts in, for a project and the selected
\* assets.
Start(project, selection) ==
    /\ sections = project
    /\ selected = selection
    /\ built = FALSE
    /\ sequence_edits = <<>>
    /\ asset = None
    /\ stack = <<>>
    /\ returned = <<>>
    /\ warnings = <<>>
    /\ items = <<>>
    /\ exc = "None"
    /\ pc = "collect"
    /\ results = <<>>
    /\ retrieve_calls = 0
    /\ Only_collector

\* One selected asset: a Level Sequence, or for the small projects a Static
\* Mesh.
Init ==
    \/ \E project \in SmallProjects,
          a \in {LevelSequenceAsset(n) : n \in 1 .. NumNodes} \cup {Asset("StaticMesh", 1)} :
          Start(project, <<a>>)
    \/ \E project \in WideProjects, n \in Nodes : Start(project, <<LevelSequenceAsset(n)>>)

\* Line 175 left out: the index is built for every selected Level Sequence.
IndexNeverKept(index_built) == TRUE

\* Line 175: "if sequence_edits is None".
IndexIsNone(index_built) == ~index_built

\* collect_selected_assets, lines 175-176: the first selected Level Sequence
\* has the dictionary built.
\* Projects for runs with several selected assets: one Level Sequence fewer
\* and one section fewer than the small projects, every section resolving to a
\* Level Sequence or having no get_sequence.
SelectionProjects ==
    Projects({Section(p, 1, c) : p \in 1 .. NumNodes - 1,
                                 c \in {NoGetSequence} \cup 1 .. NumNodes - 1},
             MaxSections - 1)

\* Projects for the scan of retrieve_sequence_edits: one Level Sequence fewer
\* than the small projects, each with up to MaxTracks shot tracks, any section
\* on any of them.
ScanProjects ==
    Projects({Section(p, tr, c) : p \in 1 .. NumNodes - 1, tr \in 1 .. MaxTracks,
                                  c \in {NoGetSequence, None} \cup 1 .. NumNodes - 1},
             MaxSections)

\* collect_selected_assets on a project with several tracks and one selected
\* asset.
ScanInit ==
    \E project \in ScanProjects, a \in {LevelSequenceAsset(1), Asset("StaticMesh", 1)} :
        Start(project, <<a>>)

\* The assets that can be selected: the Level Sequences of the project, one
\* Level Sequence no section refers to, and a Static Mesh.
SelectableAssets == {LevelSequenceAsset(n) : n \in 1 .. NumNodes} \cup {Asset("StaticMesh", 1)}

RECURSIVE Selections(_)
Selections(k) ==
    IF k = 0 THEN {<<>>}
    ELSE LET shorter == Selections(k - 1) IN
         shorter \cup {Append(s, a) : s \in {x \in shorter : Len(x) = k - 1},
                                      a \in SelectableAssets}

\* collect_selected_assets on a selection of up to MaxSelected assets.
SelectionInit ==
    \E project \in SelectionProjects, selection \in Selections(MaxSelected) :
        Start(project, selection)

RetrieveSequenceEdits ==
    /\ pc = "collect"
    /\ selected # <<>>
    /\ IsLevelSequence(Head(selected))
    /\ IndexIsNone(built)
    /\ built' = TRUE
    /\ sequence_edits' = retrieve_sequence_edits(sections)
    /\ retrieve_calls' = retrieve_calls + 1
    /\ UNCHANGED <<sections, selected, asset, stack, returned, warnings, items, exc, pc>>
    /\ UNCHANGED results
    /\ UNCHANGED outside_collector

\* collect_level_sequence, line 260: the outermost call of
\* get_all_paths_from_sequence, for the next selected Level Sequence.
CollectLevelSequence ==
    /\ pc = "collect"
    /\ selected # <<>>
    /\ IsLevelSequence(Head(selected))
    /\ ~IndexIsNone(built)
    /\ asset' = Head(selected).object
    /\ selected' = Tail(selected)
    /\ stack' = <<Frame(sequence_edits, Head(selected).object, <<>>)>>
    /\ sequence_edits' = Touch(sequence_edits, Head(selected).object)
    /\ returned' = <<>>
    /\ pc' = "paths"
    /\ UNCHANGED <<sections, built, warnings, items, exc>>
    /\ UNCHANGED <<results, retrieve_calls>>
    /\ UNCHANGED outside_collector

\* Lines 178-186: an asset of another class gets an item of its own.
CreateAssetItem ==
    /\ pc = "collect"
    /\ selected # <<>>
    /\ ~IsLevelSequence(Head(selected))
    /\ items' = Append(items, Item(Head(selected).asset_class, Head(selected).object, <<>>))
    /\ selected' = Tail(selected)
    /\ UNCHANGED <<sections, built, sequence_edits, asset, stack, returned, warnings, exc, pc>>
    /\ UNCHANGED <<results, retrieve_calls>>
    /\ UNCHANGED outside_collector

\* Lines 227-241: the next edit has a parent not yet visited; the call recurses
\* into it with a copy of visited.
Recurse ==
    /\ pc = "paths"
    /\ ~AtReturn(Top)
    /\ ~InVisited(Top.edits[Top.idx], Top.visited)
    /\ Len(stack) <= Cardinality(Nodes)  \* never false: visited holds no Level Sequence twice
    /\ LET parent == Top.edits[Top.idx].sequence IN
       /\ stack' = Append(stack, Frame(sequence_edits, parent, Top.visited))
       /\ sequence_edits' = Touch(sequence_edits, parent)
    /\ UNCHANGED <<sections, selected, built, asset, returned, warnings, items, exc, pc>>
    /\ UNCHANGED <<results, retrieve_calls>>
    /\ UNCHANGED outside_collector

\* Lines 228-233: the next edit has a parent already visited; the warning is
\* built and logged.  Building it raises TypeError, which nothing catches.
DetectCycle ==
    /\ pc = "paths"
    /\ ~AtReturn(Top)
    /\ InVisited(Top.edits[Top.idx], Top.visited)
    /\ IF JoinRaises(Top.visited)
       THEN /\ exc' = "TypeError"
            /\ pc' = "raised"
            /\ stack' = <<>>
            /\ UNCHANGED warnings
       ELSE /\ warnings' = Append(warnings,
                                  [visited |-> Top.visited,
                                   sequence |-> Top.edits[Top.idx].sequence])
            /\ stack' = [stack EXCEPT ![Len(stack)].idx = @ + 1]
            /\ UNCHANGED <<exc, pc>>
    /\ UNCHANGED <<sections, selected, built, sequence_edits, asset, returned, items>>
    /\ UNCHANGED <<results, retrieve_calls>>
    /\ UNCHANGED outside_collector

\* Lines 223/244 and 237-243: a recursive call returns, and its caller
\* prepends itself to every path it gets.
ReturnToCaller ==
    /\ pc = "paths"
    /\ Len(stack) > 1
    /\ AtReturn(Top)
    /\ LET caller == stack[Len(stack) - 1] IN
       stack' = [Pop(stack) EXCEPT ![Len(stack) - 1] =
                    [caller EXCEPT
                        !.all_paths = CollectPaths(caller.all_paths, caller.level_sequence,
                                                   caller.visited, ReturnValue(Top)),
                        !.visited = VisitedAfterCall(caller.visited, Top.visited),
                        !.idx = @ + 1]]
    /\ returned' = <<[call |-> Top, paths |-> ReturnValue(Top)]>>
    /\ UNCHANGED <<sections, selected, built, sequence_edits, asset, warnings, items, exc, pc>>
    /\ UNCHANGED <<results, retrieve_calls>>
    /\ UNCHANGED outside_collector

\* Lines 260-277: the outermost call returns to collect_level_sequence, which
\* reverses every path and creates an item for it.
ReturnToCollector ==
    /\ pc = "paths"
    /\ Len(stack) = 1
    /\ AtReturn(Top)
    /\ stack' = <<>>
    /\ returned' = <<[call |-> Top, paths |-> ReturnValue(Top)]>>
    /\ items' = items \o [i \in 1 .. Len(ReturnValue(Top)) |->
                             LET edits_path == Reverse(ReturnValue(Top)[i]) IN
                             Item("LevelSequence", edits_path[1], edits_path)]
    /\ results' = Append(results, [level_sequence |-> Top.level_sequence,
                                    paths |-> ReturnValue(Top)])
    /\ pc' = "collect"
    /\ UNCHANGED <<sections, selected, built, sequence_edits, asset, warnings, exc>>
    /\ UNCHANGED retrieve_calls
    /\ UNCHANGED outside_collector

\* Line 173: the loop over the selected assets is over.
Finish ==
    /\ pc = "collect"
    /\ selected = <<>>
    /\ pc' = "done"
    /\ UNCHANGED <<sections, selected, built, sequence_edits, asset, stack, returned,
                   warnings, items, exc>>
    /\ UNCHANGED <<results, retrieve_calls>>
    /\ UNCHANGED outside_collector

Next ==
    \/ RetrieveSequenceEdits
    \/ CollectLevelSequence
    \/ CreateAssetItem
    \/ Recurse
    \/ DetectCycle
    \/ ReturnToCaller
    \/ ReturnToCollector
    \/ Finish

Spec == Init /\ [][Next]_vars

\* Python runs the collector to its end: a step that can be taken is taken.
FairSpec == Spec /\ WF_vars(Next)

SelectionSpec == SelectionInit /\ [][Next]_vars

ScanSpec == ScanInit /\ [][Next]_vars

\* ----------------------------------------- the loader: execute_multiple_actions

\* An entry of the list of actions: its name, what get_publish_path makes of
\* its sg_publish_data ("on_disk": a path to a file that exists, "missing": a
\* path to no file, "undefined": no path, get_publish_path raises), and what
\* the execute_action of the base class does with it ("None" when it returns,
\* or the exception it raises).
Action(name, path, base) == [name |-> name, path |-> path, base |-> base]

ActionKinds ==
    {Action("import_content", path, "None") : path \in {"on_disk", "missing", "undefined"}}
        \cup {Action("other_action", path, base) :
                  path \in {"on_disk", "undefined"},
                  base \in {"None", "AttributeError", "TankError"}}

RECURSIVE ActionLists(_)
ActionLists(k) ==
    IF k = 0 THEN {<<>>}
    ELSE LET shorter == ActionLists(k - 1) IN
         shorter \cup {Append(s, a) : s \in {x \in shorter : Len(x) = k - 1},
                                      a \in ActionKinds}

\* Lines 123-124 and 140-153: whether execute_action imports the file.
Imports(a) == a.name = "import_content" /\ a.path = "on_disk"

\* Lines 125-128: the execute_action of the base class is called for the other
\* actions, and its AttributeError is ignored.
BaseClassError(a) == IF a.base = "AttributeError" THEN "None" ELSE a.base

\* execute_action, lines 104-128: "None" when it returns, or the exception
\* that leaves it.
execute_action(a) ==
    IF a.path = "undefined" THEN "PublishPathNotDefinedError"             \* line 121
    ELSE IF a.name = "import_content"
         THEN IF a.path = "missing" THEN "Exception" ELSE "None"          \* lines 140-141
         ELSE BaseClassError(a)

\* Line 102 written inside "try: ... except Exception: continue".
CatchAndContinue(error) == FALSE

\* Line 102: nothing catches what execute_action raises, so an exception ends
\* the loop and leaves execute_multiple_actions.
LeavesLoop(error) == error # "None"

\* execute_multiple_actions is called on a list of up to MaxActions actions.
LoaderInit ==
    /\ Only_loader
    /\ actions \in ActionLists(MaxActions)
    /\ position = 1
    /\ executed = <<>>
    /\ imported = <<>>
    /\ loader_exc = "None"
    /\ loader_pc = "loop"

\* Lines 98-102: one turn of the loop, the call of execute_action for the
\* action it is at.
ExecuteAction ==
    /\ loader_pc = "loop"
    /\ position <= Len(actions)
    /\ executed' = Append(executed, position)
    /\ imported' = IF execute_action(actions[position]) = "None" /\ Imports(actions[position])
                   THEN Append(imported, position) ELSE imported
    /\ IF LeavesLoop(execute_action(actions[position]))
       THEN /\ loader_exc' = execute_action(actions[position])
            /\ loader_pc' = "raised"
            /\ UNCHANGED position
       ELSE /\ position' = position + 1
            /\ UNCHANGED <<loader_exc, loader_pc>>
    /\ UNCHANGED actions
    /\ UNCHANGED outside_loader

\* Line 98: the list is exhausted, execute_multiple_actions returns.
ExecuteMultipleActionsReturns ==
    /\ loader_pc = "loop"
    /\ position > Len(actions)
    /\ loader_pc' = "done"
    /\ UNCHANGED <<actions, position, executed, imported, loader_exc>>
    /\ UNCHANGED outside_loader

LoaderNext ==
    \/ ExecuteAction
    \/ ExecuteMultipleActionsReturns

LoaderSpec == LoaderInit /\ [][LoaderNext]_vars

\* ------------------------------------- the movie publish plugin: publish_movie

\* A metadata tag of an asset.  kind is "number" for the decimal writing of
\* number, "text" for a text int() does not parse, "none" for no tag, and
\* "no_asset" when load_asset gives nothing for the asset path.
Tag(kind, number) == [kind |-> kind, number |-> number]

\* str(version_number), line 707.
Str(n) == Tag("number", n)

\* _unreal_asset_get_version, lines 676-696: 0 when the asset does not load,
\* has no tag, or has a tag int() raises ValueError for.
unreal_asset_get_version(tag) == IF tag.kind = "number" THEN tag.number ELSE 0

\* _unreal_asset_set_version, lines 698-708: nothing is stored on an asset
\* that does not load.
unreal_asset_set_version(tag, version_number) ==
    IF tag.kind = "no_asset" THEN tag ELSE Str(version_number)

\* Lines 445-446: the version number of the next publish.
NextVersion(version_number) == version_number + 1

\* A movie item as the collector hands it over: its asset, whether it has its
\* asset_path and asset_name properties, and the length of its edits_path (0
\* when it has none); then the properties validate sets, "unset" or 0 before.
MovieItem(item_asset, named, edits_len) ==
    [asset |-> item_asset, named |-> named, edits_len |-> edits_len,
     unreal_shot |-> "unset", use_movie_render_queue |-> "unset",
     version_number |-> 0, publish_path |-> FALSE]

\* Lines 458-460 written without the test of MoviePipelineAppleProResOutput.
QueueWithoutProRes(has) == "MoviePipelineQueueEngineSubsystem" \in has

\* Lines 456-460: the Movie Render Queue is used when unreal has both classes.
UseMovieRenderQueue(has) ==
    /\ "MoviePipelineQueueEngineSubsystem" \in has
    /\ "MoviePipelineAppleProResOutput" \in has

\* Line 395: ".".join of the names of edits_path[1:], empty for a path of one.
UnrealShot(edits_len) == IF edits_len > 1 THEN "shot" ELSE ""

\* Lines 474-475: the item is a shot and the Movie Render Queue is not used.
ShotNeedsQueue(item) ==
    ~UseMovieRenderQueue(unreal_has) /\ UnrealShot(item.edits_len) # ""

\* validate, lines 352-515: what it returns or raises for an item, as "True",
\* "False" or the name of the exception.
ValidateResult(item) ==
    IF ~item.named THEN "False"                                        \* lines 381-385
    ELSE IF item.edits_len = 0 THEN "False"                            \* lines 388-391
    ELSE IF template = "no_fields" THEN "TankError"                    \* lines 408-419
    ELSE IF ~map_saved THEN "False"                                    \* lines 427-429
    ELSE IF ShotNeedsQueue(item) THEN "ValueError"                     \* lines 474-476
    ELSE IF template = "missing_keys" THEN "ValueError"                \* lines 490-495
    ELSE "True"

\* The properties validate has set on the item when it returns or raises.
ValidatedItem(item) ==
    LET r == ValidateResult(item)
        shot == IF item.named /\ item.edits_len > 0
                THEN [item EXCEPT !.unreal_shot = UnrealShot(item.edits_len)] ELSE item
        queue == IF r = "True" \/ (r = "ValueError" /\ ~ShotNeedsQueue(item))  \* line 479
                 THEN [shot EXCEPT !.use_movie_render_queue =
                                       IF UseMovieRenderQueue(unreal_has) THEN "True" ELSE "False"]
                 ELSE shot
    IN  IF r = "True"
        THEN [queue EXCEPT !.version_number =
                               NextVersion(unreal_asset_get_version(metadata[item.asset])),
                           !.publish_path = TRUE]
        ELSE queue

\* The publisher calls validate for an item, any number of times before it
\* starts to publish.
Validate ==
    /\ publish_pc = "idle"
    /\ published = {}
    /\ \E i \in 1 .. Len(movie_items) :
           /\ validated' = i
           /\ validate_result' = ValidateResult(movie_items[i])
           /\ movie_items' = [movie_items EXCEPT ![i] = ValidatedItem(movie_items[i])]
    /\ UNCHANGED <<unreal_has, map_saved, template, metadata, published, publishing,
                   publish_pc, steps, metadata_before, publish_exc>>
    /\ UNCHANGED outside_publisher

\* Lines 588-591 left out: the result of the render is not looked at.
RenderFailedNever(res) == FALSE

\* Line 588, "if not res": the render reports that no movie file was produced.
RenderFailed(res) == ~res

\* The steps of publish, in the order of lines 568-650.
PublishSteps == <<"render", "set_version", "register", "create_version", "upload">>

\* publish, lines 535-591: the publisher calls publish, once, for an item
\* validate accepted; the movie is rendered, and RuntimeError is raised when the render
\* reports that no movie file was produced.
PublishRender ==
    /\ publish_pc = "idle"
    /\ \E i \in 1 .. Len(movie_items), res \in BOOLEAN :
           /\ movie_items[i].publish_path
           /\ i \notin published
           /\ published' = published \cup {i}
           /\ publishing' = i
           /\ metadata_before' = metadata[movie_items[i].asset]
           /\ steps' = <<IF res THEN "render" ELSE "render_failed">>
           /\ IF RenderFailed(res)
              THEN /\ publish_pc' = "idle"
                   /\ publish_exc' = "RuntimeError"
              ELSE /\ publish_pc' = "set_version"
                   /\ publish_exc' = "None"
    /\ UNCHANGED <<unreal_has, map_saved, template, metadata, movie_items, validated,
                   validate_result>>
    /\ UNCHANGED outside_publisher

\* Line 593: the version number validate computed is stored on the asset.
PublishSetVersion ==
    /\ publish_pc = "set_version"
    /\ metadata' = [metadata EXCEPT ![movie_items[publishing].asset] =
                       unreal_asset_set_version(@, movie_items[publishing].version_number)]
    /\ steps' = Append(steps, "set_version")
    /\ publish_pc' = "register"
    /\ UNCHANGED <<unreal_has, map_saved, template, movie_items, validated, validate_result,
                   published, publishing, metadata_before, publish_exc>>
    /\ UNCHANGED outside_publisher

\* A call of publish to the base class or to Shotgun: it is done, or it raises
\* and the exception leaves publish.
PublishCall(step, then, error) ==
    /\ \E ok \in BOOLEAN :
           IF ok THEN /\ steps' = Append(steps, step)
                      /\ publish_pc' = then
                      /\ UNCHANGED publish_exc
                 ELSE /\ publish_pc' = "idle"
                      /\ publish_exc' = error
                      /\ UNCHANGED steps
    /\ UNCHANGED <<unreal_has, map_saved, template, metadata, movie_items, validated,
                   validate_result, published, publishing, metadata_before>>
    /\ UNCHANGED outside_publisher

\* Line 596: the publish of the base class registers the movie file.
PublishRegister ==
    /\ publish_pc = "register"
    /\ PublishCall("register", "create_version", "PublishError")

\* Lines 598-635: the Version entity is created.
PublishCreateVersion ==
    /\ publish_pc = "create_version"
    /\ PublishCall("create_version", "upload", "Fault")

\* Lines 637-650: the movie is uploaded, and publish returns.
PublishUpload ==
    /\ publish_pc = "upload"
    /\ PublishCall("upload", "idle", "Fault")

\* The tags the assets can have before the publisher runs.
InitialTags == {Tag("none", 0), Tag("text", 0), Tag("no_asset", 0), Tag("number", 1)}

RECURSIVE MovieItemLists(_, _)
MovieItemLists(kinds, k) ==
    IF k = 0 THEN {<<>>}
    ELSE LET shorter == MovieItemLists(kinds, k - 1) IN
         shorter \cup {Append(s, a) : s \in {x \in shorter : Len(x) = k - 1}, a \in kinds}

PublisherStart(its_items, tag) ==
    /\ Only_publisher
    /\ movie_items = its_items
    /\ metadata = [a \in 1 .. MaxItems |-> tag]
    /\ validated = 0
    /\ validate_result = "None"
    /\ published = {}
    /\ publishing = 0
    /\ publish_pc = "idle"
    /\ steps = <<>>
    /\ metadata_before = tag
    /\ publish_exc = "None"

\* The publisher runs on up to MaxItems movie items of the collector, master
\* sequences and shots, with the Movie Render Queue, the map saved and a
\* publish template that applies.
PublishInit ==
    /\ unreal_has = {"MoviePipelineQueueEngineSubsystem", "MoviePipelineAppleProResOutput"}
    /\ map_saved = TRUE
    /\ template = "ok"
    /\ \E its_items \in MovieItemLists({MovieItem(a, TRUE, n) : a \in 1 .. MaxItems,
                                                              n \in {1, MaxEditsPath}},
                                       MaxItems),
          tag \in InitialTags :
          PublisherStart(its_items, tag)

\* validate is called on one item, of any kind and in any environment.
ValidateInit ==
    /\ unreal_has \in SUBSET {"MoviePipelineQueueEngineSubsystem", "MoviePipelineAppleProResOutput"}
    /\ map_saved \in BOOLEAN
    /\ template \in {"ok", "missing_keys", "no_fields"}
    /\ \E named \in BOOLEAN, n \in 0 .. MaxEditsPath, tag \in InitialTags :
          PublisherStart(<<MovieItem(1, named, n)>>, tag)

PublishNext ==
    \/ Validate
    \/ PublishRender
    \/ PublishSetVersion
    \/ PublishRegister
    \/ PublishCreateVersion
    \/ PublishUpload

PublishSpec == PublishInit /\ [][PublishNext]_vars

ValidateSpec == ValidateInit /\ [][PublishNext]_vars

\* ------------------------------------------------- the engine: destroy_engine

\* The lists of at most k dialogs, no dialog twice.
RECURSIVE DialogLists(_)
DialogLists(k) ==
    IF k = 0 THEN {<<>>}
    ELSE LET shorter == DialogLists(k - 1) IN
         shorter \cup UNION {{Append(s, d) : d \in (1 .. MaxDialogs) \ Range(s)} :
                                 s \in {x \in shorter : Len(x) = k - 1}}

DestroyInit ==
    /\ Only_engine
    /\ created_qt_dialogs \in DialogLists(MaxDialogs)
    /\ dialogs_still_opened = <<>>
    /\ dialog_position = 0
    /\ close_calls = <<>>
    /\ engine_pc = "start"

\* dialog.close(): the dialog tells the engine, which takes it out of
\* created_qt_dialogs.
CloseDialog(dialogs, dialog) == SelectSeq(dialogs, LAMBDA d : d # dialog)

\* Lines 228-230 written as "for dialog in self.created_qt_dialogs": the loop
\* goes over the list close() modifies.
LiveList(created, copy) == created

\* Lines 228-230: the loop goes over the copy made at line 228.
LoopList(created, copy) == copy

\* Line 228: dialogs_still_opened = self.created_qt_dialogs[:]
CopyDialogs ==
    /\ engine_pc = "start"
    /\ dialogs_still_opened' = created_qt_dialogs
    /\ dialog_position' = 1
    /\ engine_pc' = "loop"
    /\ UNCHANGED <<created_qt_dialogs, close_calls>>
    /\ UNCHANGED outside_engine

\* Lines 230-231: one turn of the loop, dialog.close().
CloseNextDialog ==
    /\ engine_pc = "loop"
    /\ dialog_position <= Len(LoopList(created_qt_dialogs, dialogs_still_opened))
    /\ LET dialog == LoopList(created_qt_dialogs, dialogs_still_opened)[dialog_position] IN
       /\ close_calls' = Append(close_calls, dialog)
       /\ created_qt_dialogs' = CloseDialog(created_qt_dialogs, dialog)
    /\ dialog_position' = dialog_position + 1
    /\ UNCHANGED <<dialogs_still_opened, engine_pc>>
    /\ UNCHANGED outside_engine

\* Line 230: the list is exhausted, destroy_engine returns.
DestroyEngineReturns ==
    /\ engine_pc = "loop"
    /\ dialog_position > Len(LoopList(created_qt_dialogs, dialogs_still_opened))
    /\ engine_pc' = "done"
    /\ UNCHANGED <<created_qt_dialogs, dialogs_still_opened, dialog_position, close_calls>>
    /\ UNCHANGED outside_engine

DestroyNext ==
    \/ CopyDialogs
    \/ CloseNextDialog
    \/ DestroyEngineReturns

DestroySpec == DestroyInit /\ [][DestroyNext]_vars

\* ------------------------------------ the engine wrapper: execution of callbacks

\* A callback: a menu command, which returns or raises an exception derived
\* from Exception when it is called.
Callbacks == {[name |-> n, raises |-> r] : n \in {"command", "other_command"}, r \in BOOLEAN}

CallbackInit ==
    /\ Only_wrapper
    /\ callback_slot = <<>>
    /\ timers = 0
    /\ ran = <<>>
    /\ logged = 0
    /\ wrapper_exc = "None"

\* Lines 152-157 written without the try block.
NoExceptionTrap(callback) == callback.raises

\* Lines 152-157: "except Exception" catches what the callback raises, so
\* nothing leaves the try block.
LeavesTrap(callback) == FALSE

\* _execute_callback, lines 127-133: the callback is stored (line 132) and run
\* at once within the exception trap (line 133).
ExecuteCallback ==
    /\ Len(ran) + timers < MaxCallbackRuns
    /\ \E callback \in Callbacks :
           /\ ran' = Append(ran, callback)
           /\ IF LeavesTrap(callback)
              THEN /\ wrapper_exc' = "Exception"
                   /\ callback_slot' = <<callback>>
                   /\ UNCHANGED logged
              ELSE /\ wrapper_exc' = "None"
                   /\ logged' = IF callback.raises THEN logged + 1 ELSE logged
                   /\ callback_slot' = <<>>
    /\ UNCHANGED timers
    /\ UNCHANGED outside_wrapper

\* _execute_deferred, lines 135-144: the callback is stored and a single-shot
\* timer is started that will call _execute_within_exception_trap.
ExecuteDeferred ==
    /\ Len(ran) + timers < MaxCallbackRuns
    /\ \E callback \in Callbacks : callback_slot' = <<callback>>
    /\ timers' = timers + 1
    /\ wrapper_exc' = "None"
    /\ UNCHANGED <<ran, logged>>
    /\ UNCHANGED outside_wrapper

\* A timer fires: _execute_within_exception_trap, lines 146-158, runs the
\* stored callback if there is one.
TimerFires ==
    /\ timers > 0
    /\ timers' = timers - 1
    /\ IF callback_slot = <<>>
       THEN UNCHANGED <<ran, logged, wrapper_exc, callback_slot>>
       ELSE /\ ran' = Append(ran, callback_slot[1])
            /\ IF LeavesTrap(callback_slot[1])
               THEN /\ wrapper_exc' = "Exception"
                    /\ UNCHANGED <<logged, callback_slot>>
               ELSE /\ wrapper_exc' = "None"
                    /\ logged' = IF callback_slot[1].raises THEN logged + 1 ELSE logged
                    /\ callback_slot' = <<>>
    /\ UNCHANGED outside_wrapper

CallbackNext ==
    \/ ExecuteCallback
    \/ ExecuteDeferred
    \/ TimerFires

CallbackSpec == CallbackInit /\ [][CallbackNext]_vars

\* ---------------------------------------- the engine wrapper: create_menu

\* The name of a command, a context or an app, as the title of a menu item.
Title(text) == [name |-> text, number |-> 0]

\* The name of the command number n that an app registered.
CommandName(n) == [name |-> "command", number |-> n]

\* The app instances of the environment: the name of the instance in the
\* environment and the display name of the app.
Apps ==
    { [instance |-> "tk-multi-publish2", display_name |-> "Publish"],
      [instance |-> "tk-multi-loader2", display_name |-> "Loader"] }

\* The display names of the apps and "Other Items", as sorted() orders them.
AppNames == <<"Loader", "Other Items", "Publish">>

\* The commands the apps may have registered: the name, the "type"
\* property and the "app" property ("None" when the property is absent).
Commands ==
    { [name |-> CommandName(n), type |-> t, app |-> a] :
        n \in 1 .. MaxCommands,
        t \in {"context_menu", "default"},
        a \in {app.instance : app \in Apps} \cup {"None"} }

\* AppCommand.__init__ (lines 334-343).
AppCommand(command) ==
    [name |-> command.name, type |-> command.type, app |-> command.app,
     favourite |-> FALSE]

\* AppCommand.get_app_name (lines 345-351).
get_app_name(cmd) ==
    IF cmd.app # "None"
    THEN (CHOOSE app \in Apps : app.instance = cmd.app).display_name
    ELSE "None"

\* AppCommand.get_app_instance_name (lines 353-373).
get_app_instance_name(cmd) == cmd.app

\* _add_menu_item (lines 246-255): the item appended to menu_items.
MenuItem(type, title) == [type |-> type, title |-> title]

\* _add_menu_item_from_command (lines 236-244).
MenuItemFromCommand(cmd) == MenuItem(cmd.type, cmd.name)

\* The commands _start_contextual_menu registers (lines 266-270).
JumpCommands ==
    <<[name |-> Title("Jump to Shotgun"), type |-> "context_menu",
       app |-> "None"]>>
    \o (IF filesystem_locations
        THEN <<[name |-> Title("Jump to File System"),
                type |-> "context_menu", app |-> "None"]>>
        ELSE <<>>)

\* The lists of at most k commands with different names: engine.commands is
\* a dictionary, items() enumerates it in any order.
RECURSIVE CommandLists(_)
CommandLists(k) ==
    IF k = 0 THEN {<<>>}
    ELSE CommandLists(k - 1) \cup
         UNION { { Append(s, c) :
                     c \in {d \in Commands :
                              \A i \in 1 .. Len(s) : s[i].name # d.name} } :
                 s \in {t \in CommandLists(k - 1) : Len(t) = k - 1} }

\* The entries a menu_favourites setting may hold.
Favourites ==
    { [app_instance |-> app.instance, name |-> CommandName(n)] :
        app \in Apps, n \in 1 .. MaxCommands }

\* The settings of at most k entries, none repeated.
RECURSIVE FavouriteLists(_)
FavouriteLists(k) ==
    IF k = 0 THEN {<<>>}
    ELSE FavouriteLists(k - 1) \cup
         UNION { { Append(s, f) : f \in Favourites \ Range(s) } :
                 s \in {t \in FavouriteLists(k - 1) : Len(t) = k - 1} }

\* create_menu is called (line 180): menu_items = [] (line 184).
MenuInit ==
    /\ engine_commands \in CommandLists(MaxCommands)
    /\ menu_favourites \in FavouriteLists(MaxFavourites)
    /\ filesystem_locations \in BOOLEAN
    /\ cmd_items = <<>>
    /\ menu_items = <<>>
    /\ favourites_done = 0
    /\ menu_pc = "start"
    /\ Only_menu

\* _start_contextual_menu (line 187, lines 257-270): the context_begin item
\* of the context, and the registration of the "Jump to" commands, which
\* items() then enumerates before or after the others.
StartContextualMenu ==
    /\ menu_pc = "start"
    /\ menu_items' = Append(menu_items, MenuItem("context_begin", Title("context")))
    /\ \E at \in {0, Len(engine_commands)} :
           engine_commands' =
               SubSeq(engine_commands, 1, at) \o JumpCommands
               \o SubSeq(engine_commands, at + 1, Len(engine_commands))
    /\ menu_pc' = "context"
    /\ UNCHANGED <<menu_favourites, filesystem_locations, cmd_items,
                   favourites_done>>
    /\ UNCHANGED outside_menu

\* The items of the commands of cmds whose type is "context_menu" (lines
\* 195-197).
RECURSIVE ContextItems(_)
ContextItems(cmds) ==
    IF cmds = <<>> THEN <<>>
    ELSE (IF Head(cmds).type = "context_menu"
          THEN <<MenuItemFromCommand(Head(cmds))>> ELSE <<>>)
         \o ContextItems(Tail(cmds))

\* Lines 190-200: the AppCommand list, the contextual commands, and the
\* context_end item.
EndContextualMenu ==
    /\ menu_pc = "context"
    /\ cmd_items' = [i \in 1 .. Len(engine_commands) |-> AppCommand(engine_commands[i])]
    /\ menu_items' = menu_items \o ContextItems(cmd_items')
                     \o <<MenuItem("context_end", Title(""))>>
    /\ menu_pc' = "favourites"
    /\ UNCHANGED <<engine_commands, menu_favourites, filesystem_locations,
                   favourites_done>>
    /\ UNCHANGED outside_menu

\* Whether the entry fav of the setting names the command cmd (line 208).
IsFavourite(fav, cmd) ==
    /\ get_app_instance_name(cmd) = fav.app_instance
    /\ cmd.name = fav.name

\* The items of the commands of cmds that fav names (lines 207-210).
RECURSIVE FavouriteItems(_, _)
FavouriteItems(fav, cmds) ==
    IF cmds = <<>> THEN <<>>
    ELSE (IF IsFavourite(fav, Head(cmds))
          THEN <<MenuItemFromCommand(Head(cmds))>> ELSE <<>>)
         \o FavouriteItems(fav, Tail(cmds))

\* One turn of the loop over the setting (lines 203-212): the commands the
\* entry names are added and marked.
AddFavourite ==
    /\ menu_pc = "favourites"
    /\ favourites_done < Len(menu_favourites)
    /\ LET fav == menu_favourites[favourites_done + 1] IN
           /\ menu_items' = menu_items \o FavouriteItems(fav, cmd_items)
           /\ cmd_items' = [i \in 1 .. Len(cmd_items) |->
                               IF IsFavourite(fav, cmd_items[i])
                               THEN [cmd_items[i] EXCEPT !.favourite = TRUE]
                               ELSE cmd_items[i]]
    /\ favourites_done' = favourites_done + 1
    /\ UNCHANGED <<engine_commands, menu_favourites, filesystem_locations,
                   menu_pc>>
    /\ UNCHANGED outside_menu

\* The key of cmd in commands_by_app (lines 222-225).
AppKey(cmd) ==
    IF get_app_name(cmd) = "None" THEN "Other Items" ELSE get_app_name(cmd)

\* commands_by_app[app_name] (lines 218-227): the commands of the app that
\* are not contextual, in the order of cmd_items.
CommandsOfApp(app_name, cmds) ==
    SelectSeq(cmds, LAMBDA cmd : cmd.type # "context_menu" /\ AppKey(cmd) = app_name)

\* The items of the commands of cmds (line 319).
CommandItems(cmds) == [i \in 1 .. Len(cmds) |-> MenuItemFromCommand(cmds[i])]

\* _add_app_menu without the test of line 326.
NeverSkipsSingle(cmd_obj) == FALSE

\* Whether _add_app_menu leaves out the only command of an app (line 326).
SkipsSingle(cmd_obj) == cmd_obj.favourite

\* A section of _add_app_menu that is never ended.
AppMenuNeverEnded(app_name, cmds) ==
    LET commands == CommandsOfApp(app_name, cmds) IN
        IF commands = <<>> THEN <<>>
        ELSE <<MenuItem("context_begin", Title(app_name))>>
             \o CommandItems(commands)

\* One turn of the loop of _add_app_menu (lines 311-328).
AppMenu(app_name, cmds) ==
    LET commands == CommandsOfApp(app_name, cmds) IN
        IF commands = <<>> THEN <<>>
        ELSE IF Len(commands) > 1
        THEN <<MenuItem("context_begin", Title(app_name))>>
             \o CommandItems(commands)
             \o <<MenuItem("context_end", Title(app_name))>>
        ELSE IF SkipsSingle(commands[1]) THEN <<>>
        ELSE CommandItems(commands)

\* _add_app_menu (lines 306-328) over the app names from the i-th on.
RECURSIVE AddAppMenu(_, _)
AddAppMenu(i, cmds) ==
    IF i > Len(AppNames) THEN <<>>
    ELSE AppMenu(AppNames[i], cmds) \o AddAppMenu(i + 1, cmds)

\* Lines 214-234: the separator, the commands by app, and the return of
\* menu_items.
CreateMenuReturns ==
    /\ menu_pc = "favourites"
    /\ favourites_done = Len(menu_favourites)
    /\ menu_items' = menu_items \o <<MenuItem("separator", Title(""))>>
                     \o AddAppMenu(1, cmd_items)
    /\ menu_pc' = "returned"
    /\ UNCHANGED <<engine_commands, menu_favourites, filesystem_locations,
                   cmd_items, favourites_done>>
    /\ UNCHANGED outside_menu

MenuNext ==
    \/ StartContextualMenu
    \/ EndContextualMenu
    \/ AddFavourite
    \/ CreateMenuReturns

MenuSpec == MenuInit /\ [][MenuNext]_vars

\* ---------------------------- the setup script: add_include_to_includes

\* The include given to the function, and the line it inserts (line 56).
IncludeLine == "- ./includes/unreal/settings/tk-unreal.yml"

\* The lines a file is made of: the header of the includes block, items of
\* a list, among them the include and a longer path that starts like it,
\* and a line that is neither.
Lines ==
    { "includes:", "- ./includes/settings/tk-maya.yml", IncludeLine,
      "- ./includes/unreal/settings/tk-unreal.yml.bak", "engines:" }

\* re.match(r"includes\s*:\n", line) (line 46).
MatchesHeader(line) == line = "includes:"

\* re.match(r"-\s+", line) (line 54).
MatchesItem(line) ==
    line \in { "- ./includes/settings/tk-maya.yml", IncludeLine,
               "- ./includes/unreal/settings/tk-unreal.yml.bak" }

\* re.match(include, line) (line 59): the line starts with the include.
MatchesInclude(line) ==
    line \in {IncludeLine, "- ./includes/unreal/settings/tk-unreal.yml.bak"}

\* The lists of at most k lines.
RECURSIVE LineLists(_)
LineLists(k) ==
    IF k = 0 THEN {<<>>}
    ELSE LineLists(k - 1) \cup
         UNION { {Append(s, l) : l \in Lines} :
                 s \in {t \in LineLists(k - 1) : Len(t) = k - 1} }

\* The positions of the lines that match the header.
Headers(ls) == {i \in 1 .. Len(ls) : MatchesHeader(ls[i])}

\* lines.insert(at, line) (line 56), at counted from 0.
Insert(ls, at, line) ==
    SubSeq(ls, 1, at) \o <<line>> \o SubSeq(ls, at + 1, Len(ls))

\* add_include_to_includes is called (line 34): changed = False (line 42).
IncludeInit ==
    /\ lines \in LineLists(MaxLines)
    /\ lines_given = lines
    /\ lineno = 0
    /\ lineno2 = <<>>
    /\ changed = FALSE
    /\ include_exc = "None"
    /\ include_pc = "start"
    /\ Only_includes

\* Lines 45-51: the first loop stops at the first header, and lineno is
\* moved to the line after it; without a header, ValueError is raised.
FindIncludesBlock ==
    /\ include_pc = "start"
    /\ IF Headers(lines) = {}
       THEN /\ include_exc' = "ValueError"
            /\ include_pc' = "raised"
            /\ UNCHANGED lineno
       ELSE /\ lineno' = CHOOSE i \in Headers(lines) : \A j \in Headers(lines) : i <= j
            /\ include_pc' = "block"
            /\ UNCHANGED include_exc
    /\ UNCHANGED <<lines, lines_given, lineno2, changed>>
    /\ UNCHANGED outside_includes

\* The value lineno2 takes in the next turn of the second loop.
NextLineno2 == IF lineno2 = <<>> THEN 0 ELSE lineno2[1] + 1

\* Whether the second loop has a line left in lines[lineno:] (line 53).
BlockHasLine(at, n) == at < n

\* One turn of the second loop (lines 53-61): a line that is no item ends
\* the block, the include is inserted in its place; an item that matches
\* the include ends the loop; any other item is passed.
TreatBlockLine ==
    /\ include_pc = "block"
    /\ BlockHasLine(lineno + NextLineno2, Len(lines))
    /\ lineno2' = <<NextLineno2>>
    /\ LET line == lines[lineno + NextLineno2 + 1] IN
           IF ~MatchesItem(line)
           THEN /\ lines' = Insert(lines, NextLineno2 + lineno, IncludeLine)
                /\ changed' = TRUE
                /\ include_pc' = "return"
           ELSE IF MatchesInclude(line)
           THEN /\ include_pc' = "return"
                /\ UNCHANGED <<lines, changed>>
           ELSE UNCHANGED <<lines, changed, include_pc>>
    /\ UNCHANGED <<lines_given, lineno, include_exc>>
    /\ UNCHANGED outside_includes

\* Line 62, after a break or after the last line of lines[lineno:]: the
\* sum of lineno and lineno2 is returned with changed; reading lineno2
\* while it is unbound raises UnboundLocalError.
AddIncludeReturns ==
    /\ \/ include_pc = "return"
       \/ /\ include_pc = "block"
          /\ ~BlockHasLine(lineno + NextLineno2, Len(lines))
    /\ IF lineno2 = <<>>
       THEN /\ include_exc' = "UnboundLocalError"
            /\ include_pc' = "raised"
       ELSE /\ include_pc' = "returned"
            /\ UNCHANGED include_exc
    /\ UNCHANGED <<lines, lines_given, lineno, lineno2, changed>>
    /\ UNCHANGED outside_includes

IncludeNext ==
    \/ FindIncludesBlock
    \/ TreatBlockLine
    \/ AddIncludeReturns

IncludeSpec == IncludeInit /\ [][IncludeNext]_vars

\* ------------------------------------------------------- notions of the claims

\* The parents of a Level Sequence: the Level Sequences of its recorded edits.
Parents(n) == {e.sequence : e \in Range(Lookup(sequence_edits, n))}

\* The parents of a Level Sequence, in the order of its edits.
ParentList(n) ==
    [i \in 1 .. Len(Lookup(sequence_edits, n)) |-> Lookup(sequence_edits, n)[i].sequence]

\* A Level Sequence without recorded edit.
Root(n) == Parents(n) = {}

RECURSIVE Ancestors(_, _)
Ancestors(S, k) ==
    IF k = 0 THEN S
    ELSE Ancestors(S \cup UNION {Parents(n) : n \in S}, k - 1)

\* The Level Sequences reached from n by one or more edits.
Above(n) == Ancestors(Parents(n), Cardinality(Nodes))

Acyclic == \A n \in Nodes : n \notin Above(n)

RootReachable(n) == \E r \in {n} \cup Above(n) : Root(r)

\* The sequences of Level Sequences got from those of S by following at most k
\* more edits, each from a Level Sequence to a parent of it.
RECURSIVE Walks(_, _)
Walks(S, k) ==
    IF k = 0 THEN S
    ELSE Walks(S \cup UNION {{Append(s, p) : p \in Parents(Last(s))} : s \in S}, k - 1)

\* The chains n0 = start, n1, ..., nk: each the parent of an edit of the one
\* before, the last one a root.  A chain of an acyclic dictionary never repeats
\* a Level Sequence, so it is no longer than there are Level Sequences.
Chains(start) == {s \in Walks({<<start>>}, Cardinality(Nodes) - 1) : Root(Last(s))}

NoRepeat(s) == \A i, j \in 1 .. Len(s) : s[i] = s[j] => i = j

\* The outermost call of get_all_paths_from_sequence has returned.
TopReturned == pc \in {"collect", "done"} /\ returned # <<>> /\ stack = <<>>

\* What it returned.
result == returned[1].paths

\* collect_selected_assets is over, by a return or by an exception.
Finished == pc \in {"done", "raised"}

\* The Level Sequences along a sequence c of edit positions taken from start:
\* c[1] is the position of an edit of start, c[2] of an edit of its parent, ...
\* <<>> when a position is beyond the edits there are.
RECURSIVE Walk(_, _)
Walk(start, c) ==
    IF c = <<>> THEN <<start>>
    ELSE IF Head(c) > Len(ParentList(start)) THEN <<>>
    ELSE LET rest == Walk(ParentList(start)[Head(c)], Tail(c)) IN
         IF rest = <<>> THEN <<>> ELSE <<start>> \o rest

\* The sequences of edit positions got from those of S by taking at most k
\* more edits from start.
RECURSIVE EditWalks(_, _, _)
EditWalks(start, S, k) ==
    IF k = 0 THEN S
    ELSE EditWalks(start,
                   S \cup UNION {{Append(c, i) :
                                     i \in 1 .. Len(ParentList(Last(Walk(start, c))))} :
                                 c \in S},
                   k - 1)

\* The sequences of edit positions that lead from start to a root.
EditChains(start) ==
    {c \in EditWalks(start, {<<>>}, Cardinality(Nodes) - 1) : Root(Last(Walk(start, c)))}

\* c takes an earlier edit than d at the first place where they part.
EarlierEdit(c, d) ==
    \E k \in 1 .. Len(c) :
        /\ k <= Len(d)
        /\ \A i \in 1 .. k - 1 : c[i] = d[i]
        /\ c[k] < d[k]

\* Leaf l has the parents m1 then m2, both have the one parent r, a root.
Diamond(l, m1, m2, r) ==
    /\ Cardinality({l, m1, m2, r}) = 4
    /\ ParentList(l) = <<m1, m2>>
    /\ ParentList(m1) = <<r>>
    /\ ParentList(m2) = <<r>>
    /\ ParentList(r) = <<>>

\* The innermost call was made on a Level Sequence whose entry of the
\* dictionary was there and empty.
TopHasEmptyEntry == pc = "paths" /\ stack # <<>> /\ Top.known /\ Top.edits = <<>>

\* The innermost call was made on a Level Sequence the dictionary did not have.
TopHasNoEntry == pc = "paths" /\ stack # <<>> /\ ~Top.known

\* The innermost call has a non-empty list of edits, all to visited parents.
TopAllCyclic ==
    /\ pc = "paths" /\ stack # <<>> /\ Top.edits # <<>>
    /\ \A i \in 1 .. Len(Top.edits) : Contains(Top.visited, Top.edits[i].sequence)

\* ------------------------------------------------------------------- claims

\* C1: on an acyclic Edit Index the paths returned are exactly the chains from
\* the start node to a root: every chain is returned and nothing else is.
C1_ExactlyTheChains ==
    (TopReturned /\ Acyclic) => Range(result) = Chains(asset)

C1_Witness ==
    /\ TopReturned /\ Acyclic
    /\ Cardinality(Range(result)) >= 2
    /\ \E i \in 1 .. Len(result) : Len(result[i]) >= 3

\* C2: on an acyclic Edit Index every returned path starts with the queried
\* node and ends with a node that has no edit (a root).
C2_StartToRoot ==
    (TopReturned /\ Acyclic) =>
        \A i \in 1 .. Len(result) :
            /\ result[i][1] = asset
            /\ Root(Last(result[i]))

C2_Witness ==
    /\ TopReturned /\ Acyclic
    /\ \E i \in 1 .. Len(result) : Len(result[i]) = 2 /\ result[i][2] # asset

\* C3: get_all_paths_from_sequence never raises, whatever the Edit Index,
\* cycles included.
C3_NeverRaises == exc = "None"

\* C4: get_all_paths_from_sequence terminates for every Edit Index and start
\* node, cycles included: the collection always comes to its end.
C4_Terminates == <>Finished

C4_Witness == Finished /\ ~Acyclic /\ asset \in Above(asset)

\* C5: no returned path holds the same node twice, for cyclic and acyclic
\* Edit Indexes alike.
C5_NoNodeTwice ==
    TopReturned => \A i \in 1 .. Len(result) : NoRepeat(result[i])

C5_Witness ==
    /\ TopReturned /\ ~Acyclic
    /\ \E i \in 1 .. Len(result) : Len(result[i]) >= 2

\* C6: a call on a node whose entry is the empty list returns exactly the one
\* path holding that node, and makes no recursive call.
C6_EmptyEntryIsRoot ==
    [][TopHasEmptyEntry =>
          /\ Len(stack') = Len(stack) - 1
          /\ returned' = <<[call |-> Top, paths |-> <<<<Top.level_sequence>>>>]>>]_vars

C6_Witness ==
    /\ returned # <<>>
    /\ returned[1].call.known /\ returned[1].call.edits = <<>>
    /\ returned[1].paths = <<<<returned[1].call.level_sequence>>>>

\* C7: a call on a node the Edit Index never had behaves as for an empty
\* list: it returns the one path holding that node and does not fail.
C7_AbsentKeyIsRoot ==
    [][TopHasNoEntry =>
          /\ exc' = "None"
          /\ Len(stack') = Len(stack) - 1
          /\ returned' = <<[call |-> Top, paths |-> <<<<Top.level_sequence>>>>]>>]_vars

C7_Witness ==
    /\ returned # <<>>
    /\ ~returned[1].call.known
    /\ returned[1].paths = <<<<returned[1].call.level_sequence>>>>
    /\ returned[1].call.level_sequence \in DOMAIN sequence_edits

\* C8: a call whose edits all point to visited parents returns the empty list
\* and raises nothing.
C8_AllCyclicReturnsEmpty ==
    [][TopAllCyclic =>
          /\ exc' = "None"
          /\ (AtReturn(Top) => returned' = <<[call |-> Top, paths |-> <<>>]>>)]_vars

\* C9: the call returns, and what it returns is empty exactly when no root is
\* reachable from the start node.
C9_EmptyIffNoRoot ==
    Finished => (TopReturned /\ (result = <<>> <=> ~RootReachable(asset)))

\* C10: the paths come depth-first in the order of the edits of each node; the
\* diamond of leaf L, parents M1 then M2 and root R gives [[L, M1, R], [L, M2, R]].
C10_EditOrder ==
    TopReturned =>
        /\ LET chains == EditChains(asset) IN
           /\ Len(result) = Cardinality(chains)
           /\ \A c \in chains :
                 result[1 + Cardinality({d \in chains : EarlierEdit(d, c)})] = Walk(asset, c)
        /\ \A l, m1, m2, r \in Nodes :
              (asset = l /\ Diamond(l, m1, m2, r)) => result = <<<<l, m1, r>>, <<l, m2, r>>>>

C10_Witness ==
    /\ TopReturned
    /\ \E l, m1, m2, r \in Nodes :
          /\ asset = l /\ Diamond(l, m1, m2, r)
          /\ result = <<<<l, m1, r>>, <<l, m2, r>>>>


\* ------------------------------------------------------------------ C11..C20

\* No two positions of a list hold the same value.
Distinct(s) == \A i, j \in 1 .. Len(s) : s[i] = s[j] => i = j

\* C11: the paths returned by one call of get_all_paths_from_sequence form a
\* set: no two returned paths are the same sequence of nodes, whatever index
\* retrieve_sequence_edits produced, a parent playing the same child in several
\* sections included.
C11_PathsFormASet == TopReturned => Distinct(result)


\* C12: two calls of get_all_paths_from_sequence in a row with the same index
\* object and the same start node, known to the index or not, return the same
\* paths in the same order.
C12_SameResultTwice ==
    \A i \in 1 .. Len(results) - 1 :
        results[i].level_sequence = results[i + 1].level_sequence
            => results[i].paths = results[i + 1].paths

\* The second of two calls in a row on the same start node has returned, for a
\* node that became a key of the index only by the lookup of the first call.
C12_Witness ==
    /\ Len(results) = 2
    /\ results[1].level_sequence = results[2].level_sequence
    /\ results[2].level_sequence \notin DOMAIN retrieve_sequence_edits(sections)
    /\ results[2].level_sequence \in DOMAIN sequence_edits
    /\ results[2].paths = BaseCase(results[2].level_sequence)


\* C13: a call of get_all_paths_from_sequence leaves the index unchanged: once
\* the call is back, the index has the keys and the edit list of each key that
\* retrieve_sequence_edits gave it before the call.
C13_IndexUnchanged ==
    TopReturned =>
        /\ DOMAIN sequence_edits = DOMAIN retrieve_sequence_edits(sections)
        /\ \A k \in DOMAIN sequence_edits :
               sequence_edits[k] = retrieve_sequence_edits(sections)[k]


\* The Level Sequences of the calls in progress, from the outermost call (the
\* start node) to the current one.
CallChain(k) == [j \in 1 .. k |-> stack[j].level_sequence]

\* C14: in every call of get_all_paths_from_sequence in progress, the visited
\* list after the push of line 218 is exactly the chain of nodes from the start
\* node down to the node of that call: nothing visited in a sibling branch or
\* in a deeper branch that has returned is in it.  Hence on an index without
\* cycle, a diamond included, no cycle is reported.
C14_VisitedIsTheChain ==
    /\ \A k \in 1 .. Len(stack) : stack[k].visited = CallChain(k)
    /\ Acyclic => warnings = <<>> /\ exc = "None"

\* The second branch of a diamond has reached the root the first branch has
\* already visited and returned from.
C14_Witness ==
    \E l, m1, m2, r \in Nodes :
        /\ Diamond(l, m1, m2, r)
        /\ Len(stack) = 3
        /\ CallChain(3) = <<l, m2, r>>
        /\ stack[1].all_paths = <<<<l, m1, r>>>>
        /\ stack[3].visited = <<l, m2, r>>


\* The loop of line 227 is at an edit whose parent is on the visited list.
AtCyclicEdit ==
    /\ pc = "paths"
    /\ stack # <<>>
    /\ ~AtReturn(Top)
    /\ InVisited(Top.edits[Top.idx], Top.visited)

\* C15: whenever get_all_paths_from_sequence meets an edit whose parent is
\* already on the visited list, it emits a diagnostic naming the visited chain
\* and the parent, makes no recursive call for that edit, and goes on with the
\* next edit of the same node.
C15_CycleDiagnosed ==
    [][AtCyclicEdit =>
           /\ warnings' = Append(warnings, [visited |-> Top.visited,
                                            sequence |-> Top.edits[Top.idx].sequence])
           /\ stack' = [stack EXCEPT ![Len(stack)].idx = @ + 1]
           /\ pc' = "paths"]_vars


\* The sections of the project that resolve to child, in scan order, each as
\* the edit of its Level Sequence, track and section.
SectionsResolvingTo(child) ==
    LET scanned == [n \in 1 .. Len(sections) |->
                       [child |-> sections[n].child,
                        edit  |-> SequenceEdit(sections[n].sequence, sections[n].track, n)]]
        resolving == SelectSeq(scanned, LAMBDA x : x.child = child)
    IN  [i \in 1 .. Len(resolving) |-> resolving[i].edit]

\* Edit d comes before edit e in the scan: parent sequences in enumeration
\* order, then tracks, then sections.
ScannedBefore(d, e) ==
    \/ d.sequence < e.sequence
    \/ d.sequence = e.sequence /\ d.track < e.track
    \/ d.sequence = e.sequence /\ d.track = e.track /\ d.section < e.section

\* C16: in the index retrieve_sequence_edits returns, the list of every child
\* node c holds exactly one SequenceEdit(parent, track, section) per scanned
\* section that resolves to c, in scan order: parent sequences, then tracks,
\* then sections.
C16_IndexHoldsTheScan ==
    built =>
        \A c \in Nodes :
            LET edits == Lookup(retrieve_sequence_edits(sections), c) IN
            /\ edits = SectionsResolvingTo(c)
            /\ edits = Lookup(sequence_edits, c)
            /\ \A i, j \in 1 .. Len(edits) : i < j => ScannedBefore(edits[i], edits[j])

\* The index has been built from a project where a child is played on two
\* tracks of one Level Sequence and by a second Level Sequence, with a section
\* that does not resolve in between.
C16_Witness ==
    /\ built
    /\ Len(sections) = MaxSections
    /\ \E c \in Nodes :
           /\ Len(Lookup(sequence_edits, c)) = 2
           /\ Lookup(sequence_edits, c)[1].section = 1
           /\ Lookup(sequence_edits, c)[2].section = 3
           /\ Lookup(sequence_edits, c)[1].track # Lookup(sequence_edits, c)[2].track
    /\ sections[2].child = NoGetSequence

\* C17: a section that does not resolve to a valid child node, for want of a
\* get_sequence operation or of an attached sequence, adds no entry and no key
\* to the index and does not stop the scan: the index has the Level Sequences
\* that sections resolve to as its only keys, and every edit of them.
C17_UnresolvedSectionSkipped ==
    built =>
        /\ DOMAIN retrieve_sequence_edits(sections)
               = {c \in Nodes : \E n \in 1 .. Len(sections) : sections[n].child = c}
        /\ \A c \in Nodes : Lookup(retrieve_sequence_edits(sections), c) = SectionsResolvingTo(c)


\* C18: collect_level_sequence creates exactly one item per path returned by
\* get_all_paths_from_sequence, in the same order; the edits_path property of
\* the i-th item is the i-th path read backwards, from the top sequence, which
\* is the asset of the item, to the selected Level Sequence.
C18_OneItemPerPath ==
    TopReturned =>
        /\ Len(items) = Len(result)
        /\ \A i \in 1 .. Len(items) :
               LET edits_path == items[i].edits_path
                   n == Len(result[i])
               IN  /\ Len(edits_path) = n
                   /\ \A j \in 1 .. n : edits_path[j] = result[i][n + 1 - j]
                   /\ Root(edits_path[1])
                   /\ edits_path[n] = asset
                   /\ items[i] = Item("LevelSequence", edits_path[1], edits_path)

\* Two items have been created for a Level Sequence with two paths to a top
\* sequence, the first of three Level Sequences.
C18_Witness ==
    /\ TopReturned
    /\ Len(items) = 2
    /\ Len(items[1].edits_path) = 3
    /\ items[1].edits_path[1] # items[2].edits_path[1]
    /\ items[1].edits_path[3] = asset


\* The index holds, for every Level Sequence, the edits retrieve_sequence_edits
\* recorded for it.
IndexAsBuilt ==
    \A k \in Nodes : Lookup(sequence_edits, k) = Lookup(retrieve_sequence_edits(sections), k)

\* C19: during one run of collect_selected_assets, retrieve_sequence_edits is
\* called at most once, and only when the first selected LevelSequence asset
\* is met, never for an asset of another class; every LevelSequence asset of
\* the run is resolved against the index that call built.
C19_IndexBuiltOnce ==
    [][/\ retrieve_calls' <= 1
       /\ retrieve_calls' # retrieve_calls =>
              /\ selected # <<>>
              /\ Head(selected).asset_class = "LevelSequence"
              /\ asset = None /\ results = <<>>
              /\ sequence_edits' = retrieve_sequence_edits(sections)
       /\ (selected # <<>> /\ Head(selected).asset_class # "LevelSequence") =>
              retrieve_calls' = retrieve_calls
       /\ (pc = "collect" /\ pc' = "paths") =>
              /\ retrieve_calls = 1
              /\ Head(selected).asset_class = "LevelSequence"
              /\ IndexAsBuilt
              /\ stack'[1].edits = Lookup(retrieve_sequence_edits(sections), Head(selected).object)
      ]_vars

\* Two different LevelSequence assets have been resolved, the second with
\* parents, after a single call of retrieve_sequence_edits.
C19_Witness ==
    /\ retrieve_calls = 1
    /\ Len(results) = 2
    /\ results[1].level_sequence # results[2].level_sequence
    /\ Len(results[2].paths[1]) > 1


\* C20: the loader's execute_multiple_actions runs execute_action on the
\* actions in list order, and when execute_action raises for the action at
\* position i, the error leaves execute_multiple_actions and no action at a
\* position after i is executed.
C20_StopsAtFirstError ==
    /\ executed = [i \in 1 .. Len(executed) |-> i]
    /\ loader_pc = "done" => Len(executed) = Len(actions)
    /\ \A i \in 1 .. Len(executed) :
           execute_action(actions[i]) # "None" =>
               /\ Len(executed) = i
               /\ loader_pc = "raised"
               /\ loader_exc = execute_action(actions[i])

\* execute_action has raised for the second of three actions, after a first
\* action that was imported.
C20_Witness ==
    /\ Len(actions) = 3
    /\ loader_pc = "raised"
    /\ executed = <<1, 2>>
    /\ imported = <<1>>
    /\ loader_exc = "Exception"


\* ------------------------------------------------------------------ C21..C28

\* The last call of publish has returned.
PublishReturned == publishing # 0 /\ publish_pc = "idle" /\ publish_exc = "None"

\* C21: when the render reports failure, publish raises RuntimeError and none
\* of the later steps has happened: the version metadata of the asset is what
\* it was, nothing is registered, no Version is created, nothing is uploaded.
\* The steps of a publish happen in the order render, set version metadata,
\* register publish, create Version, upload, and a publish that returns has
\* gone through all of them.
C21_RenderFailureStopsPublish ==
    /\ (steps # <<>> /\ steps[1] = "render_failed") =>
           /\ publish_exc = "RuntimeError"
           /\ publish_pc = "idle"
           /\ steps = <<"render_failed">>
           /\ metadata[movie_items[publishing].asset] = metadata_before
    /\ (steps # <<>> /\ steps[1] = "render") =>
           /\ publish_exc # "RuntimeError"
           /\ Len(steps) <= Len(PublishSteps)
           /\ \A k \in 1 .. Len(steps) : steps[k] = PublishSteps[k]
    /\ PublishReturned => steps = PublishSteps

\* The render of the second item published has failed, after a first publish
\* that stored a version number on the same asset.
C21_Witness ==
    /\ Cardinality(published) = 2
    /\ publish_exc = "RuntimeError"
    /\ steps = <<"render_failed">>
    /\ metadata_before.kind = "number"
    /\ metadata_before.number = 2


\* C22: every successful publish of a movie item strictly increases the
\* version number stored in the metadata of its asset, whatever validate and
\* publish calls came before, several items of one asset validated together
\* and published one after the other included.
C22_VersionIncreases ==
    (PublishReturned /\ metadata_before.kind # "no_asset") =>
        unreal_asset_get_version(metadata[movie_items[publishing].asset])
            > unreal_asset_get_version(metadata_before)


\* The Movie Render Queue can be used: unreal has its subsystem and the Apple
\* ProRes output.
QueueUsable ==
    {"MoviePipelineQueueEngineSubsystem", "MoviePipelineAppleProResOutput"} \subseteq unreal_has

\* What C23 says of the last call of validate, for the calls that satisfy
\* reaches.
ValidateWithoutQueue(reaches) ==
    validated # 0 =>
        LET item == movie_items[validated] IN
        /\ (reaches /\ ~QueueUsable /\ item.edits_len > 1) => validate_result = "ValueError"
        /\ (reaches /\ ~QueueUsable /\ item.edits_len = 1) =>
               /\ item.use_movie_render_queue = "False"
               /\ validate_result = "True" \/ template = "missing_keys"
        /\ item.edits_len = 0 => validate_result = "False"

CloseCount(dialog) == Cardinality({k \in 1 .. Len(close_calls) : close_calls[k] = dialog})

\* C24: destroy_engine calls close() exactly once on every dialog that is in
\* created_qt_dialogs when it starts, although each close() takes the dialog
\* out of created_qt_dialogs while the loop runs: no dialog is skipped, none
\* is closed twice.
C24_EveryDialogClosedOnce ==
    /\ \A d \in 1 .. MaxDialogs : CloseCount(d) <= 1
    /\ engine_pc = "done" =>
           /\ close_calls = dialogs_still_opened
           /\ created_qt_dialogs = <<>>

\* destroy_engine has returned after closing as many dialogs as there can be,
\* which were not opened in the order of their numbers.
C24_Witness ==
    /\ engine_pc = "done"
    /\ Len(close_calls) = MaxDialogs
    /\ close_calls[1] = MaxDialogs
    /\ created_qt_dialogs = <<>>


RECURSIVE OpenSections(_)
OpenSections(i) ==
    IF i = 0 THEN 0
    ELSE OpenSections(i - 1)
         + (IF menu_items[i].type = "context_begin" THEN 1 ELSE 0)
         - (IF menu_items[i].type = "context_end" THEN 1 ELSE 0)

\* The positions of the items of the given type.
PositionsOf(type) == {i \in 1 .. Len(menu_items) : menu_items[i].type = type}

\* The position of the first item of the given type.
FirstOf(type) == CHOOSE i \in PositionsOf(type) : \A j \in PositionsOf(type) : i <= j

\* The positions of the favourites part and of the separator: after the
\* context_end of the contextual section, up to the separator.
FavouritesPart == (FirstOf("context_end") + 1) .. FirstOf("separator")

\* C26: in the list create_menu returns, the first item is a context_begin,
\* a context_begin only comes when no section is open and a context_end
\* only when one is, no section is open at the end, and the favourites and
\* the separator are items outside any section.
C26_SectionsBalanced ==
    menu_pc = "returned" =>
        /\ menu_items[1].type = "context_begin"
        /\ \A i \in 1 .. Len(menu_items) :
               /\ menu_items[i].type = "context_begin" => OpenSections(i - 1) = 0
               /\ menu_items[i].type = "context_end" => OpenSections(i - 1) = 1
        /\ OpenSections(Len(menu_items)) = 0
        /\ PositionsOf("separator") # {}
        /\ \A i \in FavouritesPart :
               /\ OpenSections(i) = 0
               /\ menu_items[i].type \notin {"context_begin", "context_end"}

\* The menu is returned with a favourite before the separator and with the
\* section of an app of two commands after it.
C26_Witness ==
    /\ menu_pc = "returned"
    /\ FirstOf("separator") > FirstOf("context_end") + 1
    /\ \E i \in PositionsOf("context_begin") : i > FirstOf("separator")

\* How many items of the menu are the command of the given name.
Appearances(name) ==
    Cardinality({i \in 1 .. Len(menu_items) :
                    /\ menu_items[i].title = name
                    /\ menu_items[i].type \notin {"context_begin", "context_end", "separator"}})

\* The favourite commands that are the only command of their app.
SingleFavourites ==
    {i \in 1 .. Len(cmd_items) :
        /\ cmd_items[i].favourite
        /\ \A j \in 1 .. Len(cmd_items) : cmd_items[j].app = cmd_items[i].app => j = i}

\* Every command of engine.commands is in the returned menu.
EveryCommandAppears ==
    \A i \in 1 .. Len(engine_commands) : Appearances(engine_commands[i].name) >= 1

RECURSIVE Items(_)
Items(ls) ==
    IF ls = <<>> \/ ~MatchesItem(Head(ls)) THEN {}
    ELSE {Head(ls)} \cup Items(Tail(ls))

IncludesBlock(ls) ==
    LET header == CHOOSE i \in Headers(ls) : \A j \in Headers(ls) : i <= j
    IN  Items(SubSeq(ls, header + 1, Len(ls)))

\* The call of add_include_to_includes is over.
IncludeCallOver == include_pc \in {"returned", "raised"}

\* C28: when the given lines have an "includes:" header, the call returns
\* and the include line is among the items of the includes block; when
\* they have none, the call raises ValueError and the lines are as given.
C28_IncludeAdded ==
    IncludeCallOver =>
        IF Headers(lines_given) # {}
        THEN /\ include_pc = "returned"
             /\ IncludeLine \in IncludesBlock(lines)
        ELSE /\ include_exc = "ValueError"
             /\ lines = lines_given

\* What does hold: the call raises ValueError exactly when there is no
\* header, leaving the lines as given; and the include is in the block
\* whenever the call changed the lines.
IncludeAddedWhenChanged ==
    IncludeCallOver =>
        /\ include_exc = "ValueError" <=> Headers(lines_given) = {}
        /\ include_exc # "None" => lines = lines_given
        /\ changed => IncludeLine \in IncludesBlock(lines)
        /\ ~changed => lines = lines_given

====
